---- MODULE Spec2Model ----
(***************************************************************************)
(* Memory-region construction subsystem of uarch-bench (src/util.cpp):     *)
(* new_huge_ptr, align, aligned_ptr, misaligned_ptr, count and             *)
(* shuffled_region, over a flat byte-addressed memory.                     *)
(*                                                                         *)
(* The machine is scaled down so that the whole address space can be       *)
(* enumerated: a machine word (size_t, uintptr_t, a pointer) is WordBits   *)
(* bits, i.e. exactly one byte, the 2MB huge-page boundary is TWO_MB       *)
(* bytes, a cache line is UB_CACHE_LINE_SIZE bytes and therefore holds     *)
(* UB_CACHE_LINE_SIZE one-byte pointers.  All size_t / pointer arithmetic  *)
(* is done modulo 2^WordBits, as on the real machine.                      *)
(*                                                                         *)
(* assert() is modelled as compiled in: a failing assertion terminates the *)
(* process (status "aborted"), after which no operation can run.           *)
(***************************************************************************)
EXTENDS Integers, Sequences, FiniteSets, TLC

\* ---------------------------------------------------------------- machine

\* width of size_t / uintptr_t / a pointer (scaled: 8 bits instead of 64)
WordBits == 8

Word == 2 ^ WordBits

Addr == 0 .. (Word - 1)

\* size_t arithmetic wraps
Wrap(x) == x % Word

\* memset stores its value converted to unsigned char
ToByte(v) == v % 256

RECURSIVE BitAnd(_, _)
BitAnd(x, y) ==
    IF x = 0 \/ y = 0 THEN 0
    ELSE (x % 2) * (y % 2) + 2 * BitAnd(x \div 2, y \div 2)

\* -------------------------------------------------------------- constants

\* const size_t TWO_MB (scaled: 8 bytes instead of 2 * 1024 * 1024)
TWO_MB == 8

\* const int STORAGE_SIZE (scaled: 16 bytes instead of 100 MB)
STORAGE_SIZE == 16

\* util.hpp: capacity of the shuffled-region arena (scaled)
MAX_SHUFFLED_REGION_SIZE == 12

\* util.hpp: the cache-line size (scaled: 4 bytes instead of 64)
UB_CACHE_LINE_SIZE == 4

\* util.hpp: x is a power of two
is_pow2(x) == x # 0 /\ BitAnd(x, Wrap(x - 1)) = 0

\* ----------------------------------------------------------------- bounds

\* calls made by the harness in one process
MaxCalls == 2

\* posix_memalign places a block at TWO_MB * i for some i in 1..MaxBaseIdx
MaxBaseIdx == 4

\* arguments the harness passes to aligned_ptr: <<base_alignment, required_size>>
AlignedArgs == {<<1, 0>>, <<4, 16>>, <<8, 5>>, <<0, 5>>, <<3, 5>>, <<16, 5>>, <<8, 17>>}

\* misalignments the harness passes to misaligned_ptr
MisIn == {-3, 2}

\* arguments the harness passes to shuffled_region: <<size, offset>>
ShuffleArgs ==
    {<<4, 0>>, <<8, 0>>, <<12, 0>>, <<4, 4>>, <<8, 4>>, <<4, 8>>, <<8, 1>>,
     <<0, 0>>, <<5, 0>>, <<12, 4>>, <<20, 0>>,
     <<4, Word - UB_CACHE_LINE_SIZE>>}

MaxLines == MAX_SHUFFLED_REGION_SIZE \div UB_CACHE_LINE_SIZE

\* ------------------------------------------------------------------ state

VARIABLES
    storage_ptr,   \* void *storage_ptr: base of the small arena, 0 = null
    storage_,      \* static char* storage_ of shuffled_region, 0 = not yet initialised
    heap,          \* blocks handed out by posix_memalign, in order
    mem,           \* the bytes of the address space
    regions,       \* the region descriptors returned so far (never freed)
    shuffleOut,    \* what std::shuffle with mt19937_64{123} yields for each length
                   \* (<<>> while no call has shuffled that length yet)
    status,        \* "running" | "aborted" | "hung"
    ncalls,        \* calls made so far
    last,          \* the last call: arguments, outcome, returned pointer
    huge,          \* the new_huge_ptr call made inside the last call, if any
    trace,         \* memory events of the last shuffled_region call, in order
    alObs,         \* per alignment: addresses aligned_ptr has returned
    misObs         \* per alignment: misaligned_ptr results minus their misalignment

vars == <<storage_ptr, storage_, heap, mem, regions, shuffleOut, status, ncalls,
          last, huge, trace, alObs, misObs>>

\* ----------------------------------------------------------------- memory

InRange(x, p, n) == Wrap(x - p) < n

Range(p, n) == {Wrap(p + i) : i \in 0 .. (n - 1)}

MemSet(m, p, v, n) == [x \in Addr |-> IF InRange(x, p, n) THEN ToByte(v) ELSE m[x]]

\* util.hpp CacheLine::setNexts: every nexts[] entry of the slot at p becomes next
setNexts(m, p, next) == MemSet(m, p, next, UB_CACHE_LINE_SIZE)

\* p->nexts[0]
Nexts0(m, p) == m[p]

\* --------------------------------------------------------- the OS allocator

Disjoint(b, n, blk) == b + n <= blk.base \/ blk.base + blk.len <= b

\* addresses at which posix_memalign(&ptr, alignment, n) may place a new block:
\* aligned, inside the address space, overlapping no block handed out before
FreeBases(h, alignment, n) ==
    {b \in {TWO_MB * i : i \in 1 .. MaxBaseIdx} :
        /\ b % alignment = 0
        /\ b + n <= Word
        /\ \A j \in 1 .. Len(h) : Disjoint(b, n, h[j])}

\* posix_memalign either fails (ENOMEM, ptr left indeterminate) or returns 0 and a block
PosixMemalignOut(h, alignment, n) ==
    {[result |-> 12, ptr |-> 0]} \cup
    {[result |-> 0, ptr |-> b] : b \in FreeBases(h, alignment, n)}

NoHuge ==
    [called |-> FALSE, ok |-> FALSE, size |-> 0, base |-> 0, len |-> 0, ptr |-> 0,
     fill1 |-> {}, fill2 |-> {}]

\* --------------------------------------------------------------- new_huge_ptr

\* faulty variant: the two memsets in the other order (zero first, then 1)
new_huge_ptr_swapped(m, pm, size) ==
    LET len  == Wrap(size + TWO_MB)
        ptr  == Wrap(pm.ptr + TWO_MB)
        m1   == MemSet(m, ptr, 0, size)
        m2   == MemSet(m1, ptr, 1, size)
    IN  IF pm.result # 0
        THEN [NoHuge EXCEPT !.called = TRUE, !.size = size] @@ [mem |-> m]
        ELSE [called |-> TRUE, ok |-> TRUE, size |-> size, base |-> pm.ptr, len |-> len,
              ptr |-> ptr, fill1 |-> {m1[x] : x \in Range(ptr, size)},
              fill2 |-> {m2[x] : x \in Range(ptr, size)}, mem |-> m2]

\* new_huge_ptr(size), given the outcome pm of its posix_memalign call on memory m.
\* ok is the assertion result == 0; fill1 / fill2 are the byte values found in
\* [ptr, ptr+size) after the first and after the second memset.  madvise is advisory
\* and changes no state.
new_huge_ptr(m, pm, size) ==
    LET len  == Wrap(size + TWO_MB)
        ptr  == Wrap(pm.ptr + TWO_MB)
        m1   == MemSet(m, ptr, 1, size)
        m2   == MemSet(m1, ptr, 0, size)
    IN  IF pm.result # 0
        THEN [NoHuge EXCEPT !.called = TRUE, !.size = size] @@ [mem |-> m]
        ELSE [called |-> TRUE, ok |-> TRUE, size |-> size, base |-> pm.ptr, len |-> len,
              ptr |-> ptr, fill1 |-> {m1[x] : x \in Range(ptr, size)},
              fill2 |-> {m2[x] : x \in Range(ptr, size)}, mem |-> m2]

\* the ghost record of a new_huge_ptr call (everything but the memory)
HugeOf(h) == [f \in DOMAIN NoHuge |-> h[f]]

\* ---------------------------------------------------------------------- align

\* faulty variant: the rounding up without the mask & -base_alignment
align_nomask(base_alignment, required_size, p, space) ==
    LET aligned == Wrap(p + base_alignment - 1)
    IN  [r |-> aligned,
         ok |-> aligned # 0 /\ BitAnd(aligned, Wrap(base_alignment - 1)) = 0]

\* align(base_alignment, required_size, p, space).  r is first set to nullptr when
\* space < required_size + padding, and then unconditionally to the aligned address,
\* so the value tested by the two assertions is always the aligned address.
align(base_alignment, required_size, p, space) ==
    LET aligned == BitAnd(Wrap(p + base_alignment - 1), Wrap(0 - base_alignment))
        padding == Wrap(aligned - p)
        r       == aligned
    IN  [r |-> r,
         ok |-> r # 0 /\ BitAnd(r, Wrap(base_alignment - 1)) = 0]

\* ---------------------------------------------------------------- aligned_ptr

\* faulty variant: the assertion is_pow2(base_alignment) left out
aligned_ptr_asserts_nopow2(base_alignment, required_size) ==
    /\ required_size <= STORAGE_SIZE
    /\ base_alignment <= TWO_MB

\* the three assertions at the head of aligned_ptr
aligned_ptr_asserts(base_alignment, required_size) ==
    /\ required_size <= STORAGE_SIZE
    /\ is_pow2(base_alignment)
    /\ base_alignment <= TWO_MB

\* faulty variant: the arena is allocated at every call
need_storage_always(p) == TRUE

\* if (!storage_ptr)
need_storage(p) == p = 0

\* faulty variant: the misalignment is not applied
misaligned_add_none(p, misalignment) == p

\* misaligned_ptr: p + misalignment
misaligned_add(p, misalignment) == Wrap(p + misalignment)

Call(op, a, s, k, outcome, ret, alloc) ==
    [op |-> op, alignment |-> a, size |-> s, off |-> k, outcome |-> outcome,
     ret |-> ret, alloc |-> alloc]

NoPm == [result |-> 0, ptr |-> 0]

\* aligned_ptr(a, s), and misaligned_ptr(a, s, k) which calls it and adds k
DoAlignedPtr(op, a, s, k) ==
    /\ status = "running"
    /\ ncalls < MaxCalls
    /\ ncalls' = ncalls + 1
    /\ trace' = <<>>
    /\ UNCHANGED <<storage_, regions, shuffleOut>>
    /\ IF ~aligned_ptr_asserts(a, s)
       THEN /\ status' = "aborted"
            /\ last' = Call(op, a, s, k, "aborted", -1, FALSE)
            /\ huge' = NoHuge
            /\ UNCHANGED <<storage_ptr, heap, mem, alObs, misObs>>
       ELSE \E pm \in (IF need_storage(storage_ptr)
                       THEN PosixMemalignOut(heap, TWO_MB, Wrap(STORAGE_SIZE + TWO_MB))
                       ELSE {NoPm}) :
            LET fresh == need_storage(storage_ptr)
                h     == new_huge_ptr(mem, pm, STORAGE_SIZE)
                sp    == IF fresh THEN h.ptr ELSE storage_ptr
                al    == align(a, s, sp, STORAGE_SIZE)
                ret   == IF op = "misaligned_ptr" THEN misaligned_add(al.r, k) ELSE al.r
            IN  IF fresh /\ ~h.ok
                THEN /\ status' = "aborted"
                     /\ last' = Call(op, a, s, k, "allocfail", -1, FALSE)
                     /\ huge' = HugeOf(h)
                     /\ UNCHANGED <<storage_ptr, heap, mem, alObs, misObs>>
                ELSE /\ storage_ptr' = sp
                     /\ heap' = IF fresh
                                THEN Append(heap, [base |-> h.base, len |-> h.len,
                                                   owner |-> "small"])
                                ELSE heap
                     /\ mem' = IF fresh THEN h.mem ELSE mem
                     /\ huge' = IF fresh THEN HugeOf(h) ELSE NoHuge
                     /\ IF al.ok
                        THEN /\ status' = "running"
                             /\ last' = Call(op, a, s, k, "returned", ret, fresh)
                             /\ alObs' = IF op = "aligned_ptr"
                                         THEN [alObs EXCEPT ![a] = @ \cup {ret}]
                                         ELSE alObs
                             /\ misObs' = IF op = "misaligned_ptr"
                                          THEN [misObs EXCEPT ![a] = @ \cup {Wrap(ret - k)}]
                                          ELSE misObs
                        ELSE /\ status' = "aborted"
                             /\ last' = Call(op, a, s, k, "aborted", -1, fresh)
                             /\ UNCHANGED <<alObs, misObs>>

AlignedPtr == \E as \in AlignedArgs : DoAlignedPtr("aligned_ptr", as[1], as[2], 0)

MisalignedPtr ==
    \E as \in AlignedArgs, k \in MisIn : DoAlignedPtr("misaligned_ptr", as[1], as[2], k)

\* ---------------------------------------------------------------------- count

\* count(first): follow nexts[0] until first comes round again, counting the steps.
\* A walk that meets an address a second time before it meets first never meets
\* first: -1 stands for the loop that does not terminate.
RECURSIVE CountFrom(_, _, _, _, _)
CountFrom(m, first, p, c, seen) ==
    LET q == Nexts0(m, p)
    IN  IF q = first THEN c + 1
        ELSE IF q \in seen THEN -1
        ELSE CountFrom(m, first, q, c + 1, seen \cup {q})

count(m, first) == CountFrom(m, first, first, 0, {})

\* ------------------------------------------------------------ shuffled_region

\* the three assertions at the head of shuffled_region; size + offset is size_t arithmetic
shuffled_region_asserts(size, offset) ==
    /\ Wrap(size + offset) <= MAX_SHUFFLED_REGION_SIZE
    /\ size % UB_CACHE_LINE_SIZE = 0
    /\ size \div UB_CACHE_LINE_SIZE > 0

\* the function-local static storage_ is initialised the first time control passes it
need_static_init(p) == p = 0

\* storage + idx, in units of CacheLine
SlotAddr(storage, idx) == Wrap(storage + idx * UB_CACHE_LINE_SIZE)

Ev(ev, addr, len) == [ev |-> ev, addr |-> addr, len |-> len]

\* the permutations of 0 .. n-1, as sequences
PermsOf(n) == {f \in [1 .. n -> 0 .. (n - 1)] : \A i, j \in 1 .. n : f[i] = f[j] => i = j}

\* std::iota + std::shuffle(indexes, mt19937_64{123}).  The generator is freshly seeded
\* at every call, so the outcome is a fixed function of the length: some permutation
\* the first time a length is shuffled, and the same one at every later call.
Shuffled(out, n) == IF out[n] = <<>> THEN PermsOf(n) ELSE {out[n]}

\* faulty variant: the fill covers a whole arena length instead of size bytes
fill_region_whole(m, storage, size) == MemSet(m, storage, -1, MAX_SHUFFLED_REGION_SIZE)

\* std::memset(storage, -1, size)
fill_region(m, storage, size) == MemSet(m, storage, -1, size)

\* for (i = 1; i < size_lines; i++) { next = storage + indexes[i]; p->setNexts(next); p = next; }
\* indexes is 1-based here: indexes[i + 1] is the C++ indexes[i]
RECURSIVE LinkLoop(_, _, _, _, _, _)
LinkLoop(m, storage, indexes, i, p, ev) ==
    IF i < Len(indexes)
    THEN LET next == SlotAddr(storage, indexes[i + 1])
         IN  LinkLoop(setNexts(m, p, next), storage, indexes, i + 1, next,
                      Append(ev, Ev("setNexts", p, UB_CACHE_LINE_SIZE)))
    ELSE [mem |-> m, p |-> p, ev |-> ev]

\* faulty variant: the last slot is not linked back to the first
link_slots_open(m, storage, indexes) ==
    LET l == LinkLoop(m, storage, indexes, 1, SlotAddr(storage, indexes[1]), <<>>)
    IN  [mem |-> l.mem, ev |-> l.ev]

\* the linking: the loop, then p->setNexts(storage + indexes[0]) closes the cycle
link_slots(m, storage, indexes) ==
    LET first == SlotAddr(storage, indexes[1])
        l     == LinkLoop(m, storage, indexes, 1, first, <<>>)
    IN  [mem |-> setNexts(l.mem, l.p, first),
         ev  |-> Append(l.ev, Ev("setNexts", l.p, UB_CACHE_LINE_SIZE))]

\* for (p = storage, e = p + size; p < e; p += UB_CACHE_LINE_SIZE) _mm_clflush(p);
RECURSIVE FlushLoop(_, _, _)
FlushLoop(p, e, ev) ==
    IF p < e
    THEN FlushLoop(Wrap(p + UB_CACHE_LINE_SIZE), e, Append(ev, Ev("clflush", p, 1)))
    ELSE ev

\* the bytes of [p, p + n), in address order
Bytes(m, p, n) == [i \in 1 .. n |-> m[Wrap(p + i - 1)]]

DoShuffledRegion(size, offset) ==
    /\ status = "running"
    /\ ncalls < MaxCalls
    /\ ncalls' = ncalls + 1
    /\ UNCHANGED <<storage_ptr, alObs, misObs>>
    /\ IF ~shuffled_region_asserts(size, offset)
       THEN /\ status' = "aborted"
            /\ UNCHANGED shuffleOut
            /\ last' = Call("shuffled_region", 0, size, offset, "aborted", -1, FALSE)
            /\ huge' = NoHuge
            /\ trace' = <<>>
            /\ UNCHANGED <<storage_, heap, mem, regions>>
       ELSE \E pm \in (IF need_static_init(storage_)
                       THEN PosixMemalignOut(heap, TWO_MB,
                                             Wrap(MAX_SHUFFLED_REGION_SIZE + TWO_MB))
                       ELSE {NoPm}),
               indexes \in Shuffled(shuffleOut, size \div UB_CACHE_LINE_SIZE) :
            LET fresh      == need_static_init(storage_)
                h          == new_huge_ptr(mem, pm, MAX_SHUFFLED_REGION_SIZE)
                st         == IF fresh THEN h.ptr ELSE storage_
                m0         == IF fresh THEN h.mem ELSE mem
                storage    == Wrap(st + offset)
                size_lines == size \div UB_CACHE_LINE_SIZE
                m1         == fill_region(m0, storage, size)
                lk         == link_slots(m1, storage, indexes)
                c          == count(lk.mem, storage)
                fl         == FlushLoop(storage, Wrap(storage + size), <<>>)
                written    == <<Ev("memset", storage, size)>> \o lk.ev
                                 \o <<Ev("count", storage, size)>>
            IN  IF fresh /\ ~h.ok
                THEN /\ status' = "aborted"
                     /\ last' = Call("shuffled_region", 0, size, offset, "allocfail", -1, FALSE)
                     /\ huge' = HugeOf(h)
                     /\ trace' = <<>>
                     /\ UNCHANGED <<storage_, heap, mem, regions, shuffleOut>>
                ELSE /\ storage_' = st
                     /\ shuffleOut' = [shuffleOut EXCEPT ![size_lines] = indexes]
                     /\ heap' = IF fresh
                                THEN Append(heap, [base |-> h.base, len |-> h.len,
                                                   owner |-> "large"])
                                ELSE heap
                     /\ mem' = lk.mem
                     /\ huge' = IF fresh THEN HugeOf(h) ELSE NoHuge
                     /\ IF c = size_lines
                        THEN /\ status' = "running"
                             /\ last' = Call("shuffled_region", 0, size, offset,
                                             "returned", storage, fresh)
                             /\ trace' = written \o fl \o <<Ev("mfence", 0, 0)>>
                             /\ regions' = Append(regions,
                                    [size |-> size, start |-> storage,
                                     bytes |-> Bytes(lk.mem, storage, size)])
                        ELSE /\ status' = IF c = -1 THEN "hung" ELSE "aborted"
                             /\ last' = Call("shuffled_region", 0, size, offset,
                                             "aborted", -1, fresh)
                             /\ trace' = written
                             /\ UNCHANGED regions

ShuffledRegion == \E as \in ShuffleArgs : DoShuffledRegion(as[1], as[2])

\* ------------------------------------------------------------- specification

Init ==
    /\ storage_ptr = 0
    /\ storage_ = 0
    /\ heap = <<>>
    /\ mem = [x \in Addr |-> 170]
    /\ regions = <<>>
    /\ shuffleOut = [n \in 1 .. MaxLines |-> <<>>]
    /\ status = "running"
    /\ ncalls = 0
    /\ last = Call("none", 0, 0, 0, "none", -1, FALSE)
    /\ huge = NoHuge
    /\ trace = <<>>
    /\ alObs = [a \in {as[1] : as \in AlignedArgs} |-> {}]
    /\ misObs = [a \in {as[1] : as \in AlignedArgs} |-> {}]

Next == AlignedPtr \/ MisalignedPtr \/ ShuffledRegion

Spec == Init /\ [][Next]_vars

\* ------------------------------------------------------------------ claims

\* a power of two, stated without the bit trick of is_pow2
PowerOfTwo(a) == \E e \in 0 .. (WordBits - 1) : a = 2 ^ e

ValidAligned(a, s) == PowerOfTwo(a) /\ a <= TWO_MB /\ s <= STORAGE_SIZE

\* size + offset as the mathematical sum
ValidShuffle(size, offset) ==
    /\ size > 0
    /\ size % UB_CACHE_LINE_SIZE = 0
    /\ size + offset <= MAX_SHUFFLED_REGION_SIZE

Lines(size) == size \div UB_CACHE_LINE_SIZE

\* the slots of the region [start, start + size)
SlotsOf(start, size) == {Wrap(start + i * UB_CACHE_LINE_SIZE) : i \in 0 .. (Lines(size) - 1)}

\* the addresses reached from p by 1, 2, ..., n steps along nexts[0]
RECURSIVE Walk(_, _, _)
Walk(m, p, n) == IF n = 0 THEN <<>> ELSE <<m[p]>> \o Walk(m, m[p], n - 1)

\* from start, nexts[0] comes back to start after exactly Lines(size) steps, not
\* sooner, and the slots met on the way are exactly the slots of the region
SingleCycle(m, start, size) ==
    LET n == Lines(size)
        w == Walk(m, start, n)
    IN  /\ w[n] = start
        /\ \A i \in 1 .. (n - 1) : w[i] # start
        /\ {w[i] : i \in 1 .. n} = SlotsOf(start, size)
        /\ Cardinality(SlotsOf(start, size)) = n

Returned(op) == last.op = op /\ last.outcome = "returned"

OwnedBy(o) == {j \in 1 .. Len(heap) : heap[j].owner = o}

\* C1: for every size that is a positive multiple of the cache-line size and every
\* offset with size + offset within the large-arena capacity, shuffled_region returns
\* (unless the allocation fails) the region starting at storage_ + offset, and nexts[0]
\* from its first slot visits exactly size / cache_line_size distinct slots, all of
\* them slots of the region, before it comes back to the first slot.
C1_SingleCycle ==
    (/\ last.op = "shuffled_region"
     /\ ValidShuffle(last.size, last.off)
     /\ last.outcome # "allocfail")
    => /\ last.outcome = "returned"
       /\ last.ret = storage_ + last.off
       /\ regions[Len(regions)].start = last.ret
       /\ regions[Len(regions)].size = last.size
       /\ SingleCycle(mem, last.ret, last.size)

C1_Witness ==
    /\ Returned("shuffled_region")
    /\ last.size = 3 * UB_CACHE_LINE_SIZE
    /\ ValidShuffle(last.size, last.off)

\* C2: for every power-of-two alignment <= 2MB and every size <= the small-arena
\* capacity, aligned_ptr returns (unless the allocation fails) a pointer p with
\* p mod alignment = 0 and [p, p + size) inside the small arena
\* [storage_ptr, storage_ptr + STORAGE_SIZE), on the first call and on later calls.
C2_AlignedInsideArena ==
    (/\ last.op = "aligned_ptr"
     /\ ValidAligned(last.alignment, last.size)
     /\ last.outcome # "allocfail")
    => /\ last.outcome = "returned"
       /\ last.ret % last.alignment = 0
       /\ storage_ptr # 0
       /\ storage_ptr <= last.ret
       /\ last.ret + last.size <= storage_ptr + STORAGE_SIZE
       /\ \E j \in OwnedBy("small") :
            /\ heap[j].base <= storage_ptr
            /\ storage_ptr + STORAGE_SIZE <= heap[j].base + heap[j].len

C2_Witness ==
    /\ Returned("aligned_ptr")
    /\ ~last.alloc
    /\ last.alignment = 4
    /\ last.size = STORAGE_SIZE

\* C3: misaligned_ptr(alignment, size, k) returns exactly what aligned_ptr(alignment,
\* size) returns plus k, whatever was called before: its result is r + k for every
\* address r that aligned_ptr has returned for the alignment, and every address
\* aligned_ptr returns is the result of each earlier misaligned_ptr call minus its k.
C3_MisalignedIsAlignedPlusK ==
    /\ Returned("misaligned_ptr") =>
          \A r \in alObs[last.alignment] : last.ret = Wrap(r + last.off)
    /\ Returned("aligned_ptr") =>
          \A b \in misObs[last.alignment] : last.ret = b

C3_Witness ==
    /\ Returned("misaligned_ptr")
    /\ last.off # 0
    /\ alObs[last.alignment] # {}

\* C4: aligned_ptr (also when reached through misaligned_ptr) with a size above the
\* small-arena capacity, an alignment that is not a power of two or an alignment above
\* 2MB ends in the fatal state and returns no pointer; the checks come before the
\* arena is created, so the call allocates nothing and a failing first call leaves
\* the arena uncreated.
C4_BadArgumentsAbort ==
    (/\ last.op \in {"aligned_ptr", "misaligned_ptr"}
     /\ ~ValidAligned(last.alignment, last.size))
    => /\ status = "aborted"
       /\ last.outcome = "aborted"
       /\ last.ret = -1
       /\ ~last.alloc
       /\ ~huge.called
       /\ (ncalls = 1 => storage_ptr = 0 /\ heap = <<>>)

C4_Witness ==
    /\ last.op = "aligned_ptr"
    /\ last.alignment = 3
    /\ ncalls = 1
    /\ status = "aborted"

\* C5 (as claimed): shuffled_region with a size that is not a multiple of the
\* cache-line size, or with size + offset above the large-arena capacity, ends in the
\* fatal state, writes nothing and returns no descriptor.
C5_BadRegionAborts ==
    (/\ last.op = "shuffled_region"
     /\ \/ last.size % UB_CACHE_LINE_SIZE # 0
        \/ last.size + last.off > MAX_SHUFFLED_REGION_SIZE)
    => /\ status = "aborted"
       /\ last.outcome = "aborted"
       /\ last.ret = -1
       /\ trace = <<>>

\* C6: the small arena is allocated at most once and the large arena at most once;
\* storage_ptr and storage_ are the pointers those allocations returned, a call that
\* finds its arena present allocates nothing, and the two blocks do not overlap.
C6_ArenasAllocatedOnce ==
    /\ Cardinality(OwnedBy("small")) <= 1
    /\ Cardinality(OwnedBy("large")) <= 1
    /\ (storage_ptr # 0) = (OwnedBy("small") # {})
    /\ (storage_ # 0) = (OwnedBy("large") # {})
    /\ \A j \in OwnedBy("small") : storage_ptr = heap[j].base + TWO_MB
    /\ \A j \in OwnedBy("large") : storage_ = heap[j].base + TWO_MB
    /\ \A i, j \in 1 .. Len(heap) :
          i # j => Disjoint(heap[i].base, heap[i].len, heap[j])
    /\ (last.outcome = "returned" /\ ~last.alloc) => ~huge.called

C6_Witness ==
    /\ ncalls = 2
    /\ Returned("misaligned_ptr")
    /\ ~last.alloc
    /\ Len(heap) = 1

\* C7: when its allocation succeeds new_huge_ptr(size) returns a pointer aligned to
\* 2MB with [p, p + size) inside the block of size + 2MB bytes obtained from the OS,
\* every byte of [p, p + size) is written first with a non-zero value and then with
\* zero, and all are zero at return; when the allocation fails the process
\* terminates and no pointer is returned.
C7_HugePtr ==
    huge.called =>
        IF huge.ok
        THEN /\ huge.ptr % TWO_MB = 0
             /\ huge.len = huge.size + TWO_MB
             /\ huge.base <= huge.ptr
             /\ huge.ptr + huge.size <= huge.base + huge.len
             /\ heap[Len(heap)].base = huge.base
             /\ heap[Len(heap)].len = huge.len
             /\ huge.fill1 # {}
             /\ 0 \notin huge.fill1
             /\ huge.fill2 = {0}
             /\ last.op \in {"aligned_ptr", "misaligned_ptr"} =>
                   \A x \in Range(huge.ptr, huge.size) : mem[x] = 0
             /\ last.op = "shuffled_region" =>
                   \A x \in Range(huge.ptr, huge.size) :
                        InRange(x, last.ret, last.size) \/ mem[x] = 0
        ELSE /\ status = "aborted"
             /\ last.outcome = "allocfail"
             /\ last.ret = -1

C7_Witness ==
    /\ huge.called
    /\ huge.ok
    /\ last.op = "aligned_ptr"
    /\ huge.size = STORAGE_SIZE

\* the hardware cache line an address lies in
LineOf(x) == x \div UB_CACHE_LINE_SIZE

Positions(ev) == {i \in 1 .. Len(trace) : trace[i].ev = ev}

\* C8 (as claimed): for every valid (size, offset), also with an offset that is not a
\* multiple of the cache-line size, shuffled_region flushes every hardware cache line
\* holding a byte of the region and then fences, all after the last write to the
\* region.
C8_FlushCoversRegion ==
    Returned("shuffled_region") =>
        /\ {LineOf(x) : x \in Range(last.ret, last.size)}
              \subseteq {LineOf(trace[i].addr) : i \in Positions("clflush")}
        /\ Positions("mfence") = {Len(trace)}
        /\ \A i \in Positions("clflush") :
              \A j \in Positions("memset") \cup Positions("setNexts") : j < i

Overlap(r1, r2) ==
    \E x \in Range(r1.start, r1.size) : InRange(x, r2.start, r2.size)

Intact(r) ==
    /\ Bytes(mem, r.start, r.size) = r.bytes
    /\ SingleCycle(mem, r.start, r.size)

\* C9 (as claimed): once shuffled_region has returned a descriptor, no later call
\* changes a byte of its region, so every region returned so far still is a single
\* cycle over its own slots.
C9_RegionsNeverChange == \A i \in 1 .. Len(regions) : Intact(regions[i])

\* C9 (amended): a returned region keeps its bytes and its single cycle as long as no
\* later shuffled_region call returned a region overlapping it; aligned_ptr and
\* misaligned_ptr never change it.
C9_RegionsChangeOnlyByOverlap ==
    \A i \in 1 .. Len(regions) :
        (\A j \in (i + 1) .. Len(regions) : ~Overlap(regions[i], regions[j]))
            => Intact(regions[i])

C9_Witness ==
    /\ Len(regions) = 2
    /\ ~Overlap(regions[1], regions[2])
    /\ Returned("shuffled_region")
    /\ Intact(regions[1])

\* C10 (as claimed): whenever shuffled_region passes its three checks, size + offset
\* <= MAX_SHUFFLED_REGION_SIZE holds as a mathematical sum and every byte it fills,
\* links or flushes lies inside the large arena.
C10_NoWrapPastChecks ==
    Returned("shuffled_region") =>
        /\ last.size + last.off <= MAX_SHUFFLED_REGION_SIZE
        /\ \A i \in 1 .. Len(trace) :
              \A x \in Range(trace[i].addr, trace[i].len) :
                  InRange(x, storage_, MAX_SHUFFLED_REGION_SIZE)

====
